---- MODULE Spec2Model ----
(***************************************************************************)
(* Model of Spectra's SymGEigsShiftSolver (shift-and-invert mode,          *)
(* include/Spectra/SymGEigsShiftSolver.h): the constructor that injects    *)
(* the shift into the user's operator, and the sort_ritzpair override that *)
(* maps the Ritz values nu of the transformed problem back to              *)
(* lambda = 1/nu + sigma before the base class sorts them.                 *)
(*                                                                         *)
(* Scalar is a binary floating-point type (float, double, long double).    *)
(* It is modelled as a small IEEE-754 style format: Prec significant bits, *)
(* FracBits fractional bits at the bottom of the range (gradual            *)
(* underflow), round-to-nearest-even, signed zeros and infinities, NaN.    *)
(***************************************************************************)
EXTENDS Integers, Sequences, FiniteSets, TLC

\* ------------------------------------------------------------------------
\* Bounds of the model
\* ------------------------------------------------------------------------

\* significant bits of the modelled Scalar
Prec == 3

\* the smallest positive Scalar is 2^(-FracBits)
FracBits == 6

\* ------------------------------------------------------------------------
\* Scalar arithmetic
\* ------------------------------------------------------------------------

RECURSIVE Pow2(_)
Pow2(k) == IF k = 0 THEN 1 ELSE 2 * Pow2(k - 1)

\* a finite Scalar of magnitude v is the real number v / Scale
Scale == Pow2(FracBits)

\* the largest finite magnitude, (2^Prec - 1) in real terms
MaxFinite == (Pow2(Prec) - 1) * Scale

Abs(x) == IF x < 0 THEN -x ELSE x

Sgn(x) == IF x < 0 THEN -1 ELSE 1

Fin(s, v) == [k |-> "fin", s |-> s, v |-> v]

Inf(s) == [k |-> "inf", s |-> s, v |-> 0]

NaN == [k |-> "nan", s |-> 1, v |-> 0]

One == Fin(1, Scale)

IsFinite(x) == x.k = "fin"

IsZero(x) == x.k = "fin" /\ x.v = 0

\* the signed magnitude of a finite Scalar, in units of 1/Scale
Val(x) == x.s * x.v

\* n/d rounded to an integer, ties to even
RoundNearestEven(n, d) ==
    LET q == n \div d
        r == n % d
    IN  IF 2 * r < d THEN q
        ELSE IF 2 * r > d THEN q + 1
        ELSE IF q % 2 = 0 THEN q ELSE q + 1

\* the least k >= from with n / (d * 2^k) < 2^Prec
RECURSIVE UlpExp(_, _, _)
UlpExp(n, d, from) ==
    IF n < Pow2(Prec) * Pow2(from) * d THEN from ELSE UlpExp(n, d, from + 1)

\* the Scalar nearest to s * (n/d) / Scale, for n >= 0 and d > 0
Round(s, n, d) ==
    IF n = 0 THEN Fin(s, 0)
    ELSE IF n >= 2 * (MaxFinite + Scale) * d THEN Inf(s)
    ELSE LET k == UlpExp(n, d, 0)
             m == RoundNearestEven(n, d * Pow2(k)) * Pow2(k)
         IN  IF m > MaxFinite THEN Inf(s) ELSE Fin(s, m)

\* Scalar(n/d): a literal converted to the working precision
ToScalar(n, d) == Round(Sgn(n), Abs(n) * Scale, d)

\* a / b in the working precision, for a = Scalar(1)
FDivOne(x) ==
    CASE x.k = "nan" -> NaN
      [] x.k = "inf" -> Fin(x.s, 0)
      [] x.v = 0     -> Inf(x.s)
      [] OTHER       -> Round(x.s, Scale * Scale, x.v)

\* a + b in the working precision
FAdd(a, b) ==
    CASE a.k = "nan" \/ b.k = "nan" -> NaN
      [] a.k = "inf" /\ b.k = "inf" -> IF a.s = b.s THEN a ELSE NaN
      [] a.k = "inf" -> a
      [] b.k = "inf" -> b
      [] OTHER ->
           LET t == Val(a) + Val(b)
           IN  IF t = 0
               THEN Fin(IF a.s = -1 /\ b.s = -1 THEN -1 ELSE 1, 0)
               ELSE Round(Sgn(t), Abs(t), 1)

\* ------------------------------------------------------------------------
\* The spectral transform
\* ------------------------------------------------------------------------

\* nu = 1 / (lambda - sigma), the eigenvalue of (A - sigma B)^{-1} B that
\* belongs to the eigenvalue lambda of (A, B), as the nearest Scalar
Nu(lambda, sigma) ==
    LET d == Val(lambda) - Val(sigma)
    IN  IF d = 0 THEN Inf(1) ELSE Round(Sgn(d), Scale * Scale, Abs(d))

\* a magnitude with the sign turned
Neg(x) == [x EXCEPT !.s = -x.s]

\* a transform back that subtracts the shift instead of adding it
BackTransform_minus_sigma(nu, sigma) == FAdd(FDivOne(nu), Neg(sigma))

\* a transform back that guards the division: a zero nu is left at the shift
BackTransform_guarded(nu, sigma) ==
    IF nu.k = "fin" /\ nu.v = 0 THEN sigma ELSE FAdd(FDivOne(nu), sigma)

\* lambda = 1 / nu + sigma, evaluated in Scalar as the code evaluates it
BackTransform(nu, sigma) == FAdd(FDivOne(nu), sigma)

\* the rewrite without head(m_nev): every entry of the buffer is transformed
InvertHead_whole_buffer(val, nev, sigma) ==
    [i \in DOMAIN val |-> BackTransform(val[i], sigma)]

\* m_ritz_val.head(m_nev).array() = Scalar(1) / m_ritz_val.head(m_nev).array() + m_sigma
InvertHead(val, nev, sigma) ==
    [i \in DOMAIN val |-> IF i <= nev THEN BackTransform(val[i], sigma) ELSE val[i]]

\* ------------------------------------------------------------------------
\* Sort rules and the base class's generic sort
\* ------------------------------------------------------------------------

SortRules == {"LargestMagn", "LargestAlge", "SmallestMagn", "SmallestAlge"}

\* magnitude and signed value as sort keys; an infinity is beyond every finite
Mag(x) == IF x.k = "inf" THEN MaxFinite + Scale ELSE x.v

Alg(x) == x.s * Mag(x)

\* a may stand before b in a sequence ordered by the rule
Before(sort_rule, a, b) ==
    CASE sort_rule = "LargestMagn"  -> Mag(a) >= Mag(b)
      [] sort_rule = "LargestAlge"  -> Alg(a) >= Alg(b)
      [] sort_rule = "SmallestMagn" -> Mag(a) <= Mag(b)
      [] sort_rule = "SmallestAlge" -> Alg(a) <= Alg(b)

Perms(n) == {p \in [1..n -> 1..n] : \A i, j \in 1..n : i # j => p[i] # p[j]}

\* the orders of the first nev entries that the rule allows (ties in any order)
SortPerms(sort_rule, val, nev) ==
    {p \in Perms(nev) :
        \A i \in 1..nev - 1 : Before(sort_rule, val[p[i]], val[p[i + 1]])}

\* the first nev entries of s taken in the order p, the rest left in place
Reorder(s, p, nev) == [i \in DOMAIN s |-> IF i <= nev THEN s[p[i]] ELSE s[i]]

\* ------------------------------------------------------------------------
\* Problems the solver is run on
\* ------------------------------------------------------------------------

\* restart iterations one compute() may take (its maxit argument)
MaxIter == 1

\* calls of eigenvalues(), and of compute() before init(), in one run
MaxCalls == 1

\* the eigenvalues of (A, B), distinct, for A = diag(...) and B = identity
Diag12345 == {ToScalar(1, 1), ToScalar(2, 1), ToScalar(3, 1), ToScalar(4, 1), ToScalar(5, 1)}

\* <<eigenvalues of (A, B), shift sigma>>
Problems ==
    { <<Diag12345, ToScalar(5, 2)>>,
      <<Diag12345, ToScalar(0, 1)>>,
      <<Diag12345, ToScalar(3, 1)>>,
      <<{ToScalar(-2, 1), ToScalar(1, 2), ToScalar(7, 2), ToScalar(6, 1)}, ToScalar(-1, 1)>>,
      <<{ToScalar(-1, 1), ToScalar(7, 2), ToScalar(6, 1)}, ToScalar(0, 1)>> }

\* <<nev, ncv>> as given to the constructor, valid or not
Sizes == {<<1, 2>>, <<2, 3>>, <<0, 2>>, <<2, 2>>}

\* a member that has not been constructed yet
Unset == [k |-> "unset", s |-> 1, v |-> 0]

NoSnapshot == [val |-> <<>>, vec |-> <<>>, conv |-> <<>>, info |-> "NotComputed", sigma |-> Unset]

VARIABLES
    prob,         \* the caller's problem: eigs, sigma, nev, ncv, shift_fails
    pc,           \* where the solver object is in its life
    err,          \* the error surfaced to the caller, "none" if none
    err_from,     \* the operation that surfaced it
    m_sigma,      \* const Scalar m_sigma
    m_nev,        \* Base::m_nev
    m_ncv,        \* Base::m_ncv
    m_ritz_val,   \* Base::m_ritz_val, ncv Ritz values
    m_ritz_vec,   \* Base::m_ritz_vec, the columns named by their slot at retrieval
    m_ritz_conv,  \* Base::m_ritz_conv, nev convergence flags
    m_info,       \* Base::m_info, the status code
    op_shift,     \* the shifts op.set_shift() was called with, in order
    rule,         \* the sort rule given to compute()
    iter,         \* restart iterations done by compute()
    trace,        \* the calls and steps so far, in order
    entry,        \* the solver when the sort_ritzpair override was entered
    mid,          \* the solver when the override delegates to Base::sort_ritzpair
    base_rule,    \* the rule Base::sort_ritzpair was called with
    evalues,      \* what eigenvalues() returned last
    calls         \* calls counted against MaxCalls

vars == <<prob, pc, err, err_from, m_sigma, m_nev, m_ncv, m_ritz_val, m_ritz_vec,
          m_ritz_conv, m_info, op_shift, rule, iter, trace, entry, mid, base_rule,
          evalues, calls>>

base_vars == <<m_nev, m_ncv, m_ritz_val, m_ritz_vec, m_ritz_conv, m_info>>

\* the dimension n of the problem
Dim == Cardinality(prob.eigs)

Init ==
    /\ prob \in {[eigs |-> pr[1], sigma |-> pr[2], nev |-> sz[1], ncv |-> sz[2], shift_fails |-> f] :
                    pr \in Problems, sz \in Sizes, f \in BOOLEAN}
    \* a singular A - sigma B cannot be factorized: set_shift fails
    /\ prob.sigma \in prob.eigs => prob.shift_fails
    /\ pc = "Start"
    /\ err = "none"
    /\ err_from = "none"
    /\ m_sigma = Unset
    /\ m_nev = 0
    /\ m_ncv = 0
    /\ m_ritz_val = <<>>
    /\ m_ritz_vec = <<>>
    /\ m_ritz_conv = <<>>
    /\ m_info = "NotComputed"
    /\ op_shift = <<>>
    /\ rule = "none"
    /\ iter = 0
    /\ trace = <<>>
    /\ entry = NoSnapshot
    /\ mid = NoSnapshot
    /\ base_rule = "none"
    /\ evalues = <<>>
    /\ calls = 0

\* ------------------------------------------------------------------------
\* Construction
\* ------------------------------------------------------------------------

\* Base(op, Bop, nev, ncv): 1 <= nev <= n - 1 and nev < ncv <= n, or it throws
BaseArgsOK(nev, ncv) == 1 <= nev /\ nev <= Dim - 1 /\ nev < ncv /\ ncv <= Dim

\* a constructor body that leaves the operator's shift unset
ShiftInjection_missing(sigma) == <<>>

\* the constructor's body: op.set_shift(m_sigma), once
ShiftInjection(sigma) == <<sigma>>

\* a constructor that catches the failure of set_shift and goes on
Construct_swallows_shift_failure ==
    /\ pc = "Start"
    /\ BaseArgsOK(prob.nev, prob.ncv)
    /\ m_nev' = prob.nev
    /\ m_ncv' = prob.ncv
    /\ m_sigma' = prob.sigma
    /\ op_shift' = op_shift \o ShiftInjection(m_sigma')
    /\ trace' = trace \o [i \in 1..Len(ShiftInjection(m_sigma')) |-> "set_shift"]
    /\ pc' = "Constructed"
    /\ UNCHANGED <<prob, err, err_from, m_ritz_val, m_ritz_vec, m_ritz_conv, m_info, rule,
                   iter, entry, mid, base_rule, evalues, calls>>

\* SymGEigsShiftSolver(op, Bop, nev, ncv, sigma)
Construct ==
    /\ pc = "Start"
    /\ \/ /\ ~BaseArgsOK(prob.nev, prob.ncv)
          /\ pc' = "ConfigError"
          /\ err' = "config"
          /\ err_from' = "Construct"
          /\ UNCHANGED <<m_sigma, m_nev, m_ncv, op_shift, trace>>
       \/ /\ BaseArgsOK(prob.nev, prob.ncv)
          /\ m_nev' = prob.nev
          /\ m_ncv' = prob.ncv
          /\ m_sigma' = prob.sigma
          /\ op_shift' = op_shift \o ShiftInjection(m_sigma')
          /\ trace' = trace \o [i \in 1..Len(ShiftInjection(m_sigma')) |-> "set_shift"]
          /\ IF prob.shift_fails /\ Len(op_shift') > 0
             THEN pc' = "ShiftError" /\ err' = "shift" /\ err_from' = "Construct"
             ELSE pc' = "Constructed" /\ UNCHANGED <<err, err_from>>
    /\ UNCHANGED <<prob, m_ritz_val, m_ritz_vec, m_ritz_conv, m_info, rule, iter,
                   entry, mid, base_rule, evalues, calls>>

\* ------------------------------------------------------------------------
\* Base::init()
\* ------------------------------------------------------------------------

Zero == Fin(1, 0)

\* init(): allocates the Ritz buffers and applies the operator to the
\* starting vector; a failure of the operator propagates to the caller
Initialize ==
    /\ pc = "Constructed"
    /\ m_ritz_val' = [i \in 1..m_ncv |-> Zero]
    /\ m_ritz_vec' = [i \in 1..m_nev |-> i]
    /\ m_ritz_conv' = [i \in 1..m_nev |-> FALSE]
    /\ \/ /\ pc' = "Initialized"
          /\ trace' = trace \o <<"init", "apply">>
          /\ UNCHANGED <<err, err_from>>
       \/ /\ pc' = "Failed"
          /\ trace' = trace \o <<"init", "apply_failed">>
          /\ err' = "operator"
          /\ err_from' = "Initialize"
    /\ UNCHANGED <<prob, m_sigma, m_nev, m_ncv, m_info, op_shift, rule, iter,
                   entry, mid, base_rule, evalues, calls>>

\* ------------------------------------------------------------------------
\* Base::compute(sort_rule, maxit, tol)
\* ------------------------------------------------------------------------

\* compute() on a solver that was not initialized: a usage error
ComputeRejected ==
    /\ pc = "Constructed"
    /\ calls < MaxCalls
    /\ calls' = calls + 1
    /\ err' = "usage"
    /\ err_from' = "Compute"
    /\ trace' = Append(trace, "compute_rejected")
    /\ UNCHANGED <<prob, pc, m_sigma, base_vars, op_shift, rule, iter, entry, mid,
                   base_rule, evalues>>

\* a compute() that does not ask for init() first
ComputeBegin_without_init ==
    /\ pc \in {"Constructed", "Initialized"}
    /\ \E r \in SortRules : rule' = r
    /\ pc' = "Computing"
    /\ m_info' = "Converging"
    /\ iter' = 0
    /\ trace' = Append(trace, "compute")
    /\ UNCHANGED <<prob, err, err_from, m_sigma, m_nev, m_ncv, m_ritz_val, m_ritz_vec,
                   m_ritz_conv, op_shift, entry, mid, base_rule, evalues, calls>>

\* compute(sort_rule) enters the restart iteration. A compute() on a solver
\* that has already computed is left out: what the base class does then is
\* not fixed by anything this model is drawn from.
ComputeBegin ==
    /\ pc = "Initialized"
    /\ \E r \in SortRules : rule' = r
    /\ pc' = "Computing"
    /\ m_info' = "Converging"
    /\ iter' = 0
    /\ trace' = Append(trace, "compute")
    /\ UNCHANGED <<prob, err, err_from, m_sigma, m_nev, m_ncv, m_ritz_val, m_ritz_vec,
                   m_ritz_conv, op_shift, entry, mid, base_rule, evalues, calls>>

\* one restart iteration: the composed operator is applied; it may fail
RestartStep ==
    /\ pc = "Computing"
    /\ iter < MaxIter
    /\ \/ /\ iter' = iter + 1
          /\ trace' = Append(trace, "apply")
          /\ UNCHANGED <<pc, err, err_from>>
       \/ /\ pc' = "Failed"
          /\ trace' = Append(trace, "apply_failed")
          /\ err' = "operator"
          /\ err_from' = "Compute"
          /\ UNCHANGED iter
    /\ UNCHANGED <<prob, m_sigma, base_vars, op_shift, rule, entry, mid, base_rule,
                   evalues, calls>>

\* the Ritz values of the transformed operator that a converged iteration
\* delivers: nev eigenvalues nu that the rule ranks before all the others
Wanted(sort_rule, nev) ==
    {W \in SUBSET prob.eigs :
        /\ Cardinality(W) = nev
        /\ \A a \in W, b \in prob.eigs \ W :
              Before(sort_rule, Nu(a, m_sigma), Nu(b, m_sigma))}

\* Ritz values an unconverged iteration may hold
RitzCandidates == {Nu(a, m_sigma) : a \in prob.eigs} \cup {Zero, Fin(-1, 0)}

Snapshot(val, vec, conv) ==
    [val |-> val, vec |-> vec, conv |-> conv, info |-> m_info, sigma |-> m_sigma]

\* Base::sort_ritzpair(sort_rule): orders the first nev Ritz pairs by the rule
BaseSortRitzpair(sort_rule, val, vec, conv) ==
    /\ base_rule' = sort_rule
    /\ \E p \in SortPerms(sort_rule, val, m_nev) :
          /\ m_ritz_val' = Reorder(val, p, m_nev)
          /\ m_ritz_vec' = Reorder(vec, p, m_nev)
          /\ m_ritz_conv' = Reorder(conv, p, m_nev)

\* an override that sorts by the base class's default rule, not the caller's
sort_ritzpair_default_rule(sort_rule, val, vec, conv, tr) ==
    LET lam == InvertHead(val, m_nev, m_sigma)
    IN  /\ entry' = Snapshot(val, vec, conv)
        /\ mid' = Snapshot(lam, vec, conv)
        /\ trace' = tr \o <<"invert", "base_sort">>
        /\ BaseSortRitzpair("LargestAlge", lam, vec, conv)

\* an override that sorts the nu values first and transforms them back after
sort_ritzpair_sort_first(sort_rule, val, vec, conv, tr) ==
    /\ entry' = Snapshot(val, vec, conv)
    /\ mid' = Snapshot(InvertHead(val, m_nev, m_sigma), vec, conv)
    /\ trace' = tr \o <<"base_sort", "invert">>
    /\ base_rule' = sort_rule
    /\ \E p \in SortPerms(sort_rule, val, m_nev) :
          /\ m_ritz_val' = InvertHead(Reorder(val, p, m_nev), m_nev, m_sigma)
          /\ m_ritz_vec' = Reorder(vec, p, m_nev)
          /\ m_ritz_conv' = Reorder(conv, p, m_nev)

\* the override: transform back the first nev Ritz values, then sort
sort_ritzpair(sort_rule, val, vec, conv, tr) ==
    LET lam == InvertHead(val, m_nev, m_sigma)
    IN  /\ entry' = Snapshot(val, vec, conv)
        /\ mid' = Snapshot(lam, vec, conv)
        /\ trace' = tr \o <<"invert", "base_sort">>
        /\ BaseSortRitzpair(sort_rule, lam, vec, conv)

\* the end of compute(): after at least one iteration the loop stops (converged,
\* or maxit reached), the Ritz pairs are retrieved, sort_ritzpair(sort_rule)
\* runs, and the status is set
ComputeFinish ==
    /\ pc = "Computing"
    /\ iter >= 1
    /\ LET tail == One IN
        \/ \E W \in Wanted(rule, m_nev) :
             \E h \in {f \in [1..m_nev -> W] : \A i, j \in 1..m_nev : i # j => f[i] # f[j]} :
                /\ sort_ritzpair(rule,
                      [i \in 1..m_ncv |-> IF i <= m_nev THEN Nu(h[i], m_sigma) ELSE tail],
                      [i \in 1..m_nev |-> i],
                      [i \in 1..m_nev |-> TRUE],
                      Append(trace, "iter_end"))
                /\ m_info' = "Successful"
                /\ pc' = "Converged"
        \/ \E h \in [1..m_nev -> RitzCandidates], c \in [1..m_nev -> BOOLEAN] :
                /\ \E i \in 1..m_nev : ~c[i]
                /\ sort_ritzpair(rule,
                      [i \in 1..m_ncv |-> IF i <= m_nev THEN h[i] ELSE tail],
                      [i \in 1..m_nev |-> i],
                      c,
                      Append(trace, "iter_end"))
                /\ m_info' = "NotConverging"
                /\ pc' = "PartiallyConverged"
    /\ UNCHANGED <<prob, err, err_from, m_sigma, m_nev, m_ncv, op_shift, rule, iter,
                   evalues, calls>>

\* ------------------------------------------------------------------------
\* Accessors
\* ------------------------------------------------------------------------

RECURSIVE ConvergedValues(_, _, _)
ConvergedValues(val, conv, i) ==
    IF i > Len(conv) THEN <<>>
    ELSE (IF conv[i] THEN <<val[i]>> ELSE <<>>) \o ConvergedValues(val, conv, i + 1)

\* eigenvalues(): the converged Ritz values, in buffer order
Eigenvalues ==
    /\ pc \in {"Constructed", "Initialized", "Converged", "PartiallyConverged", "Failed"}
    /\ calls < MaxCalls
    /\ calls' = calls + 1
    /\ evalues' = ConvergedValues(m_ritz_val, m_ritz_conv, 1)
    /\ trace' = Append(trace, IF evalues' = <<>> THEN "eigenvalues_empty" ELSE "eigenvalues")
    /\ UNCHANGED <<prob, pc, err, err_from, m_sigma, base_vars, op_shift, rule, iter,
                   entry, mid, base_rule>>

Next ==
    \/ Construct
    \/ Initialize
    \/ ComputeRejected
    \/ ComputeBegin
    \/ RestartStep
    \/ ComputeFinish
    \/ Eigenvalues

Spec == Init /\ [][Next]_vars

\* ------------------------------------------------------------------------
\* Vocabulary of the properties
\* ------------------------------------------------------------------------

Positions(e) == {i \in 1..Len(trace) : trace[i] = e}

Last(e) == Len(trace) > 0 /\ trace[Len(trace)] = e

\* the override has run: entry and mid hold its two snapshots
HasSnapshot == mid # NoSnapshot

\* eigenvalues() was called after compute() had sorted the Ritz pairs
ExposedAfterCompute ==
    \E a \in Positions("base_sort") :
        \E b \in Positions("eigenvalues") \cup Positions("eigenvalues_empty") : a < b

\* a finite Scalar at full precision: neither zero nor subnormal
Normal(x) == x.k = "fin" /\ x.v >= Pow2(Prec - 1)

\* |x - sigma| in units of 1/Scale, an infinity being farther than every finite
Dist(x) == IF x.k = "inf" THEN 4 * MaxFinite ELSE Abs(Val(x) - Val(prob.sigma))

\* |stored - lambda| <= 3 * 2^(-Prec) * (|lambda - sigma| + |lambda|)
WithinRounding(stored, lambda) ==
    Abs(Val(stored) - Val(lambda)) * Pow2(Prec)
        <= 3 * (Abs(Val(lambda) - Val(prob.sigma)) + Abs(Val(lambda)))

\* nu = 1 / (lambda - sigma) holds exactly for the Scalar nu, and lambda - sigma is a Scalar
ExactTransform(lambda) ==
    LET d == Val(lambda) - Val(prob.sigma)
    IN  /\ d # 0
        /\ Round(Sgn(d), Abs(d), 1) = Fin(Sgn(d), Abs(d))
        /\ Nu(lambda, prob.sigma).k = "fin"
        /\ Val(Nu(lambda, prob.sigma)) * d = Scale * Scale

Injections(n, S) == {f \in [1..n -> S] : \A i, j \in 1..n : i # j => f[i] # f[j]}

Range(f) == {f[i] : i \in DOMAIN f}

\* ------------------------------------------------------------------------
\* C2  the override stores 1/nu + sigma; from nu = 1/(lambda - sigma) the
\*     stored value is lambda
\* ------------------------------------------------------------------------

\* C2 as stated: every Ritz value that is the nu of an eigenvalue lambda is
\* rewritten to exactly lambda.
C2_RoundTripExact ==
    HasSnapshot =>
        \A i \in 1..m_nev : \A lambda \in prob.eigs :
            entry.val[i] = Nu(lambda, prob.sigma) => mid.val[i] = lambda

\* C2 as amended: the value stored for nu, the Scalar nearest 1/(lambda - sigma),
\* is lambda up to rounding: exactly lambda when nu = 1/(lambda - sigma) holds
\* exactly, and otherwise, when nu and 1/nu are normal numbers and nothing
\* overflows, within 3 * 2^(-Prec) * (|lambda - sigma| + |lambda|) of lambda; the shift
\* used is the one given at construction.
C2_RoundTripWithinRounding ==
    HasSnapshot =>
        /\ mid.sigma = prob.sigma
        /\ \A i \in 1..m_nev : \A lambda \in prob.eigs :
              entry.val[i] = Nu(lambda, prob.sigma) =>
                  /\ ExactTransform(lambda) => mid.val[i] = lambda
                  /\ (Normal(entry.val[i]) /\ Normal(FDivOne(entry.val[i]))
                        /\ IsFinite(mid.val[i])) =>
                        WithinRounding(mid.val[i], lambda)

\* a rewrite that returned one eigenvalue exactly and another only nearly
C2_Witness ==
    /\ HasSnapshot
    /\ \E i, j \in 1..m_nev : \E a, b \in prob.eigs :
          /\ entry.val[i] = Nu(a, prob.sigma) /\ ExactTransform(a) /\ mid.val[i] = a
          /\ prob.sigma # Zero
          /\ entry.val[j] = Nu(b, prob.sigma) /\ Normal(entry.val[j])
          /\ IsFinite(mid.val[j]) /\ mid.val[j] # b

\* ------------------------------------------------------------------------
\* C7  a zero Ritz value
\* ------------------------------------------------------------------------

\* C7: a zero nu among the first nev entries is rewritten, without an error and
\* without a change of the status code, to an infinity, which goes through
\* the sort and is returned by eigenvalues() like any converged value.
C7_ZeroRitzValue ==
    HasSnapshot =>
        \A i \in 1..m_nev :
            IsZero(entry.val[i]) =>
                /\ mid.val[i] = Inf(entry.val[i].s)
                /\ mid.info = entry.info
                /\ pc \in {"Converged", "PartiallyConverged"}
                /\ err # "operator"
                /\ \E j \in 1..m_nev :
                      /\ m_ritz_vec[j] = i
                      /\ m_ritz_val[j] = mid.val[i]
                      /\ m_ritz_conv[j] = entry.conv[i]
                      /\ (ExposedAfterCompute /\ m_ritz_conv[j]) =>
                            \E k \in 1..Len(evalues) : evalues[k] = mid.val[i]

\* eigenvalues() returned an infinity that came from a zero Ritz value
C7_Witness ==
    /\ HasSnapshot
    /\ ExposedAfterCompute
    /\ \E i \in 1..m_nev : IsZero(entry.val[i]) /\ entry.conv[i]
    /\ \E k \in 1..Len(evalues) : evalues[k].k = "inf"

\* ------------------------------------------------------------------------
\* C10  what the override itself writes
\* ------------------------------------------------------------------------

\* C10: between its entry and its call of Base::sort_ritzpair the override
\* rewrites the first nev Ritz values, converged or not, and nothing else: the
\* entries from nev on, the Ritz vectors, the convergence flags, the status
\* and the shift are as they were; the shift is the constructor's in every state.
C10_FrameOfInversion ==
    /\ pc \notin {"Start", "ConfigError"} => m_sigma = prob.sigma
    /\ HasSnapshot =>
          /\ Len(entry.val) = m_ncv
          /\ Len(mid.val) = m_ncv
          /\ \A i \in 1..m_nev : mid.val[i] = FAdd(FDivOne(entry.val[i]), prob.sigma)
          /\ \A i \in (m_nev + 1)..m_ncv : mid.val[i] = entry.val[i]
          /\ mid.vec = entry.vec
          /\ mid.conv = entry.conv
          /\ mid.info = entry.info
          /\ mid.sigma = entry.sigma
          /\ mid.sigma = prob.sigma

\* an unconverged Ritz value was rewritten, and the buffer has entries past nev
C10_Witness ==
    /\ HasSnapshot
    /\ m_ncv > m_nev
    /\ \E i \in 1..m_nev : ~entry.conv[i] /\ mid.val[i] # entry.val[i]

\* ------------------------------------------------------------------------
\* C5  the shift is injected once, before the operator is applied
\* ------------------------------------------------------------------------

\* C5: once the constructor has run, op.set_shift has been called exactly
\* once, with the constructor's sigma; no later step calls it again, and
\* every application of the operator comes after that call.
C5_ShiftSetOnceBeforeApply ==
    /\ pc \notin {"Start", "ConfigError"} => op_shift = <<prob.sigma>>
    /\ Len(op_shift) <= 1
    /\ Cardinality(Positions("set_shift")) = Len(op_shift)
    /\ \A i \in Positions("apply") \cup Positions("apply_failed") :
          \E j \in Positions("set_shift") : j < i

\* a run Construct, Initialize, Compute that iterated and converged
C5_Witness ==
    /\ pc = "Converged"
    /\ iter >= 1
    /\ op_shift = <<prob.sigma>>
    /\ Cardinality(Positions("apply")) >= 2

\* ------------------------------------------------------------------------
\* C6  a failing set_shift
\* ------------------------------------------------------------------------

\* op.set_shift was called and failed
ShiftFailed == prob.shift_fails /\ op_shift # <<>>

\* C6 as stated: the failure of set_shift is surfaced by Initialize or
\* Compute, and the solver never converges nor exposes eigenvalues.
C6_SurfacedByInitOrCompute ==
    ShiftFailed =>
        /\ err = "shift"
        /\ err_from \in {"Initialize", "Compute"}
        /\ m_info # "Successful"
        /\ evalues = <<>>

\* C6 as amended: the failure of set_shift is surfaced by the constructor,
\* which calls it; no solver object comes to exist, so Initialize and
\* Compute never run, the status never becomes converged and no eigenvalue
\* is exposed.
C6_SurfacedByConstructor ==
    ShiftFailed =>
        /\ pc = "ShiftError"
        /\ err = "shift"
        /\ err_from = "Construct"
        /\ m_info = "NotComputed"
        /\ evalues = <<>>
        /\ Positions("init") = {}
        /\ Positions("compute") = {}
        /\ ~HasSnapshot

\* the constructor ended with the failure of set_shift
C6_Witness == ShiftFailed /\ pc = "ShiftError" /\ trace = <<"set_shift">>

\* ------------------------------------------------------------------------
\* C8  the lifecycle
\* ------------------------------------------------------------------------

\* init() has been called and has returned
InitDone == \E j \in Positions("init") : j < Len(trace) /\ trace[j + 1] = "apply"

\* C8: the solver is in one of the lifecycle's states; compute() iterates only
\* on a solver whose init() has completed; compute() on a solver that is
\* only constructed is a usage error and leaves it constructed.
C8_InitBeforeCompute ==
    /\ pc \in {"Start", "ConfigError", "ShiftError", "Constructed", "Initialized",
               "Computing", "Converged", "PartiallyConverged", "Failed"}
    /\ pc \in {"Initialized", "Computing", "Converged", "PartiallyConverged"} => InitDone
    /\ \A i \in Positions("compute") \cup Positions("iter_end") :
          \E j \in Positions("init") : j + 1 < i /\ trace[j + 1] = "apply"
    /\ \A i \in Positions("compute_rejected") : \A j \in Positions("init") : i < j
    /\ Last("compute_rejected") =>
          /\ pc = "Constructed"
          /\ err = "usage"
          /\ err_from = "Compute"
          /\ m_info = "NotComputed"
          /\ iter = 0

\* compute() was rejected on the constructed solver, which was then
\* initialized and is iterating
C8_Witness ==
    /\ Positions("compute_rejected") # {}
    /\ pc = "Computing"
    /\ iter >= 1

\* ------------------------------------------------------------------------
\* C9  the inversion runs once, in its place
\* ------------------------------------------------------------------------

ClosestToShiftRule == "LargestMagn"

\* C3 as stated: asked for the eigenvalues closest to sigma, eigenvalues()
\* returns them in ascending order of |lambda - sigma|.
C3_AscendingDistanceFromShift ==
    (ExposedAfterCompute /\ rule = ClosestToShiftRule) =>
        \A k \in 1..Len(evalues) - 1 : Dist(evalues[k]) <= Dist(evalues[k + 1])

\* C3 as amended: eigenvalues() returns the converged lambda in the order of
\* the caller's sort rule applied to lambda itself (largest magnitude: by
\* non-increasing |lambda|, not by |lambda - sigma|), whatever the order in
\* which the iteration delivered the nu values; the sorted buffer is a
\* permutation of the rewritten one.
C3_OrderedByRuleOnLambda ==
    /\ HasSnapshot =>
          /\ Range(m_ritz_vec) = 1..m_nev
          /\ \A j \in 1..m_nev :
                /\ m_ritz_val[j] = mid.val[m_ritz_vec[j]]
                /\ m_ritz_conv[j] = mid.conv[m_ritz_vec[j]]
          /\ \A j \in 1..m_nev - 1 : Before(rule, m_ritz_val[j], m_ritz_val[j + 1])
    /\ ExposedAfterCompute =>
          /\ evalues = ConvergedValues(m_ritz_val, m_ritz_conv, 1)
          /\ \A k \in 1..Len(evalues) - 1 : Before(rule, evalues[k], evalues[k + 1])

\* the base sort exchanged two converged values that came in the other order
C3_Witness ==
    /\ ExposedAfterCompute
    /\ rule = ClosestToShiftRule
    /\ Len(evalues) = 2
    /\ Mag(evalues[1]) > Mag(evalues[2])
    /\ m_ritz_vec = <<2, 1>>
    /\ Mag(entry.val[1]) > Mag(entry.val[2])

\* ------------------------------------------------------------------------
\* C1  largest |nu| is closest to sigma
\* ------------------------------------------------------------------------

\* a converged compute(LargestMagn) whose eigenvalues were then read
ClosestRun == pc = "Converged" /\ rule = "LargestMagn" /\ ExposedAfterCompute

\* C1 as stated: the values reported are exactly the nev eigenvalues of
\* (A, B) nearest to sigma.
C1_ExactlyTheClosest ==
    ClosestRun =>
        /\ Range(evalues) \subseteq prob.eigs
        /\ Cardinality(Range(evalues)) = m_nev
        /\ \A a \in Range(evalues) : \A b \in prob.eigs \ Range(evalues) :
              Dist(a) <= Dist(b)

\* C1 as amended: the nev values reported are fl(1/nu + sigma) for the nu of
\* nev distinct eigenvalues lambda_i; no other eigenvalue is nearer to sigma
\* than a lambda_i unless rounding gives both the same |nu|; each reported
\* value is its lambda_i up to rounding (within
\* 3 * 2^(-Prec) * (|lambda_i - sigma| + |lambda_i|) when nu and 1/nu are
\* normal and nothing overflows); for diag(1,2,3,4,5), B = I, sigma = 2.5, nev = 2 the
\* result set is exactly {2, 3}.
C1_ClosestUpToRounding ==
    ClosestRun =>
        /\ Len(evalues) = m_nev
        /\ \E h \in Injections(m_nev, prob.eigs) :
              \A i \in 1..m_nev :
                 /\ evalues[i] = FAdd(FDivOne(Nu(h[i], prob.sigma)), prob.sigma)
                 /\ \A b \in prob.eigs \ Range(h) :
                       \/ Dist(h[i]) <= Dist(b)
                       \/ Mag(Nu(h[i], prob.sigma)) = Mag(Nu(b, prob.sigma))
                 /\ (Normal(Nu(h[i], prob.sigma)) /\ Normal(FDivOne(Nu(h[i], prob.sigma)))
                       /\ IsFinite(evalues[i])) =>
                       WithinRounding(evalues[i], h[i])
        /\ (prob.eigs = Diag12345 /\ prob.sigma = ToScalar(5, 2) /\ m_nev = 2) =>
              Range(evalues) = {ToScalar(2, 1), ToScalar(3, 1)}

\* the scenario: diag(1,2,3,4,5), sigma = 2.5, nev = 2 reported {2, 3}
C1_Witness ==
    /\ ClosestRun
    /\ prob.eigs = Diag12345
    /\ prob.sigma = ToScalar(5, 2)
    /\ m_nev = 2
    /\ Range(evalues) = {ToScalar(2, 1), ToScalar(3, 1)}

====
